---------------------------- MODULE Spec2Model ----------------------------
(***************************************************************************)
(* Conjugate gradient notebook (conjugate_gradient_method.ipynb): the      *)
(* objective f, the finite-difference gradient, the hand-made line search  *)
(* my_line_search, the Polak-Ribiere update get_next_p and the driver loop *)
(* that records x_ts / p_ts.                                               *)
(*                                                                         *)
(* Numbers.  A Python float is a fixed-point number: the integer v stands  *)
(* for v / Scale.  Sums and differences are exact; products, quotients,    *)
(* powers and the norm are rounded to the nearest representable value.     *)
(* The three non-finite floats are the integers NaN, PosInf and NegInf,    *)
(* which lie outside the finite range, and every operation treats them by  *)
(* the IEEE rules numpy follows (division by zero gives inf or nan and     *)
(* raises nothing).  Finite overflow is not modelled: the inputs are       *)
(* bounded so that every finite result stays far below PosInf.  The step   *)
(* delta of grad and the parameters of the line search are scaled to this  *)
(* precision (delta = 16/Scale where the notebook has 1e-7).               *)
(*                                                                         *)
(* Arrays.  A numpy 2-D array is a sequence of rows, a 1-D array is a      *)
(* sequence of numbers.  A point or direction is a 3x1 array.              *)
(***************************************************************************)
EXTENDS Integers, Sequences, FiniteSets, TLC

\* ------------------------------------------------------------------ bounds
Scale == 256             \* representable values are the multiples of 1/Scale
MaxIters == 6            \* largest max_iters the line search is run with
MaxNIters == 3           \* largest n_iters the driver is run with

\* ------------------------------------------------------- program constants
a == 2
b == 3
feeler_step == 2

\* --------------------------------------------------------- float encoding
PosInf == 2^30
NegInf == -PosInf
NaN == PosInf + 1

IsNaN(v) == v = NaN
IsInf(v) == v = PosInf \/ v = NegInf
IsFinite(v) == ~IsNaN(v) /\ ~IsInf(v)

Fx(n) == n * Scale                       \* the float with integer value n
Abs(v) == IF v < 0 THEN -v ELSE v
Sgn(v) == IF v > 0 THEN 1 ELSE IF v < 0 THEN -1 ELSE 0
SgnX(v) == IF v = PosInf THEN 1 ELSE IF v = NegInf THEN -1 ELSE Sgn(v)
InfOf(s) == IF s > 0 THEN PosInf ELSE NegInf

\* num/den (den > 0) rounded to the nearest integer, ties away from zero; a
\* nonzero quotient is never rounded to zero (binary64 keeps a relative
\* precision: products and quotients of nonzero floats are nonzero).
Round(num, den) ==
    LET q == (2 * Abs(num) + den) \div (2 * den)
    IN  IF num = 0 THEN 0 ELSE Sgn(num) * (IF q = 0 THEN 1 ELSE q)

\* num/den rounded to the nearest integer, ties away from zero (a power of a
\* small number may round to zero, which is what cancels in f(xh)-f(xs)).
RoundNear(num, den) == Sgn(num) * ((2 * Abs(num) + den) \div (2 * den))

FNeg(v) == IF IsNaN(v) THEN NaN ELSE -v

FAdd(u, v) ==
    IF IsNaN(u) \/ IsNaN(v) THEN NaN
    ELSE IF IsInf(u) /\ IsInf(v) THEN (IF u = v THEN u ELSE NaN)
    ELSE IF IsInf(u) THEN u
    ELSE IF IsInf(v) THEN v
    ELSE u + v

FSub(u, v) == FAdd(u, FNeg(v))

FMul(u, v) ==
    IF IsNaN(u) \/ IsNaN(v) THEN NaN
    ELSE IF IsInf(u) \/ IsInf(v)
         THEN (IF u = 0 \/ v = 0 THEN NaN ELSE InfOf(SgnX(u) * SgnX(v)))
    ELSE Round(u * v, Scale)

FDiv(u, v) ==
    IF IsNaN(u) \/ IsNaN(v) THEN NaN
    ELSE IF IsInf(u) THEN (IF IsInf(v) THEN NaN
                           ELSE InfOf(SgnX(u) * (IF v < 0 THEN -1 ELSE 1)))
    ELSE IF IsInf(v) THEN 0
    ELSE IF v = 0 THEN (IF u = 0 THEN NaN ELSE InfOf(Sgn(u)))
    ELSE Round(Sgn(v) * u * Scale, Abs(v))

\* u > v as Python compares floats: every comparison with nan is False
FGt(u, v) == IF IsNaN(u) \/ IsNaN(v) THEN FALSE ELSE u > v

\* u ** k for k = 2 or k = 4, by repeated squaring
FSquare(u) == RoundNear(u * u, Scale)
FPow(u, k) ==
    IF IsNaN(u) THEN NaN
    ELSE IF IsInf(u) THEN PosInf
    ELSE IF k = 2 THEN FSquare(u) ELSE FSquare(FSquare(u))

\* the integer nearest to the square root of n >= 0
RECURSIVE SqrtFloor(_, _, _)
SqrtFloor(n, lo, hi) ==
    IF lo >= hi THEN lo
    ELSE LET mid == (lo + hi + 1) \div 2
         IN  IF mid * mid <= n THEN SqrtFloor(n, mid, hi)
             ELSE SqrtFloor(n, lo, mid - 1)

ISqrt(n) ==
    LET r == SqrtFloor(n, 0, 46340)
    IN  IF n - r * r > r THEN r + 1 ELSE r

\* Python's max(u, v) and min(u, v): the first argument unless the second
\* compares greater (smaller)
PyMax(u, v) == IF FGt(v, u) THEN v ELSE u
PyMin(u, v) == IF FGt(u, v) THEN v ELSE u


\* ---------------------------------------------------------- numpy arrays
N == 3                                   \* n, the dimensionality (f reads x[0], x[1], x[2])

Rows(m) == Len(m)
Cols(m) == Len(m[1])
Shape(m) == <<Rows(m), Cols(m)>>

Col(v1, v2, v3) == <<(<<v1>>), (<<v2>>), (<<v3>>)>>      \* np.array([[v1], [v2], [v3]])

RECURSIVE FSum(_)
FSum(s) == IF Len(s) = 0 THEN 0 ELSE FAdd(Head(s), FSum(Tail(s)))

\* An array is always held as a tuple of tuples of numbers (Tab2) or a
\* tuple of numbers (Tab1), never as an unevaluated function expression.
Tab1(n, E(_)) == SubSeq([c \in 1..n |-> E(c)], 1, n)
Tab2(rows, cols, E(_, _)) ==
    SubSeq([r \in 1..rows |-> SubSeq([c \in 1..cols |-> E(r, c)], 1, cols)], 1, rows)

Ones(shape) == Tab2(shape[1], shape[2], LAMBDA r, c : Fx(1))                    \* np.ones(shape)
Eye(n) == Tab2(n, n, LAMBDA r, c : IF r = c THEN Fx(1) ELSE 0)                  \* np.eye(n)
Transpose(m) == Tab2(Cols(m), Rows(m), LAMBDA r, c : m[c][r])                   \* m.T
MatMul(m, k) ==                                                                 \* m @ k
    Tab2(Rows(m), Cols(k), LAMBDA r, c :
        FSum(Tab1(Cols(m), LAMBDA j : FMul(m[r][j], k[j][c]))))
MatAdd(m, k) == Tab2(Rows(m), Cols(m), LAMBDA r, c : FAdd(m[r][c], k[r][c]))    \* m + k, equal shapes
MatSub(m, k) == Tab2(Rows(m), Cols(m), LAMBDA r, c : FSub(m[r][c], k[r][c]))    \* m - k, equal shapes
ScalarMul(s, m) == Tab2(Rows(m), Cols(m), LAMBDA r, c : FMul(s, m[r][c]))       \* s * m, s a scalar
ScalarDiv(m, s) == Tab2(Rows(m), Cols(m), LAMBDA r, c : FDiv(m[r][c], s))       \* m / s, s a scalar
\* m * k where m has shape (1, 1): numpy broadcasts m over k
BroadcastMul(m, k) == Tab2(Rows(k), Cols(k), LAMBDA r, c : FMul(m[1][1], k[r][c]))
ElemDiv(m, k) == Tab2(Rows(m), Cols(m), LAMBDA r, c : FDiv(m[r][c], k[r][c]))   \* m / k, equal shapes
\* v.reshape(shape) for a 1-D array v, in row-major order
Reshape(v, shape) == Tab2(shape[1], shape[2], LAMBDA r, c : v[(r - 1) * shape[2] + c])

\* ------------------------------------------------------------ the notebook
\* f(x): x[0], x[1], x[2] are the rows of x, so the result is a 1-D array
\* with one value per column of x
f(x) ==
    Tab1(Cols(x), LAMBDA c :
        FAdd(FAdd(FMul(Fx(a), FPow(FSub(x[1][c], Fx(1)), 4)),
                  FPow(FSub(x[2][c], Fx(2)), 2)),
             FMul(Fx(b), FPow(FSub(x[3][c], Fx(1)), 4))))

\* xs of grad: one copy of pt per column
grad_xs(pt) == MatMul(pt, Transpose(Ones(Shape(pt))))
\* xh of grad: the copies, each with the step d added on the diagonal
grad_xh(pt, d) == MatAdd(grad_xs(pt), ScalarMul(d, Eye(Rows(pt))))

\* grad with the step added to every coordinate of every copy
grad_StepEverywhere(pt, delta) ==
    LET xs == grad_xs(pt)
        xh == MatAdd(xs, ScalarMul(delta, Ones(<<Rows(pt), Rows(pt)>>)))
        fh == f(xh)
        fs == f(xs)
    IN  Reshape(Tab1(Len(fh), LAMBDA c : FDiv(FSub(fh[c], fs[c]), delta)), Shape(pt))

\* grad without the division by the step
grad_Undivided(pt, delta) ==
    LET xs == grad_xs(pt)
        xh == grad_xh(pt, delta)
        fh == f(xh)
        fs == f(xs)
    IN  Reshape(Tab1(Len(fh), LAMBDA c : FSub(fh[c], fs[c])), Shape(pt))

\* grad(pt, delta)
grad(pt, delta) ==
    LET xs == grad_xs(pt)
        xh == grad_xh(pt, delta)
        fh == f(xh)
        fs == f(xs)
    IN  Reshape(Tab1(Len(fh), LAMBDA c : FDiv(FSub(fh[c], fs[c]), delta)), Shape(pt))

\* np.linalg.norm(vec): the square root of the sum of the squares
Entries(m) == {m[r][c] : r \in 1..Rows(m), c \in 1..Cols(m)}
RECURSIVE SumSq(_)
SumSq(s) == IF Len(s) = 0 THEN 0 ELSE Head(s) * Head(s) + SumSq(Tail(s))
RECURSIVE SumInt(_)
SumInt(s) == IF Len(s) = 0 THEN 0 ELSE Head(s) + SumInt(Tail(s))
Norm(m) ==
    IF \E v \in Entries(m) : IsNaN(v) THEN NaN
    ELSE IF \E v \in Entries(m) : IsInf(v) THEN PosInf
    ELSE ISqrt(SumInt([r \in 1..Rows(m) |-> SumSq(m[r])]))

normalize(vec) ==
    LET norm == Norm(vec)
    IN  IF norm = 0 THEN vec ELSE ScalarDiv(vec, norm)


\* line_grad(x, p): component of the gradient parallel to p
delta == 16                              \* default step of grad, in units of 1/Scale
line_grad(x, p) == MatMul(Transpose(grad(x, delta)), normalize(p))[1][1]

\* get_next_p with the Fletcher-Reeves numerator
get_next_p_FletcherReeves(tx, nx, tp) ==
    LET numer == MatMul(Transpose(grad(nx, delta)), grad(nx, delta))
        denom == MatMul(Transpose(grad(tx, delta)), grad(tx, delta))
    IN  MatAdd(grad(nx, delta), BroadcastMul(ElemDiv(numer, denom), tp))

\* get_next_p(this_x, next_x, this_p)
get_next_p(tx, nx, tp) ==
    LET numer == MatMul(Transpose(MatSub(grad(nx, delta), grad(tx, delta))), grad(nx, delta))
        denom == MatMul(Transpose(grad(tx, delta)), grad(tx, delta))
    IN  MatAdd(grad(nx, delta), BroadcastMul(ElemDiv(numer, denom), tp))

\* ------------------------------------------------------------------ inputs
x0 == Col(Fx(2), Fx(3), Fx(2))           \* x0 of the notebook
answer == Col(Fx(1), Fx(2), Fx(1))       \* answer, the minimizer
\* a point where f(xh) = f(xs) in every coordinate: grad is exactly zero
flat == Col(Fx(1) - delta \div 2, Fx(2) - delta \div 2, Fx(1) - delta \div 2)
Points == { x0, answer, flat, Col(Fx(2), Fx(2), Fx(1)) }
OldPoints == Points \ { answer }         \* previous points of a get_next_p call
Directions == { Col(0, 0, 0),
                Col(Fx(1), 0, 0),
                Col(Fx(-1), 0, 0),
                Col(0, Fx(1), 0),
                Col(Fx(1), Fx(1), 0) }
\* The parameters of my_line_search, in units of 1/Scale.  The notebook's
\* defaults (feeler_init = 1e-3, tolerance = 1e-7, max_iters = 1000) are
\* scaled to the precision of the model: the smallest feeler is one unit,
\* tolerances are a few units and max_iters is at most MaxIters.
FeelerInits == { 1, 4 }
Tolerances == { 4, 16 }
Factors == { 2 }                         \* c > 0 of a rescaled direction c*p

NoValue == <<>>                          \* a name that is not bound (yet)
NoCall == [x |-> NoValue, p |-> NoValue, outcome |-> "none", ret |-> NoValue]
Raised == { "bracket_timeout", "bisect_timeout", "unbound_error" }
Finished == Raised \cup { "returned" }

\* ------------------------------------------------------------------- state
VARIABLES
    feeler_init, tolerance, max_iters,   \* the parameters of my_line_search
    lpc,                                 \* where the running my_line_search call is
    x, p, la, lgla, lb, i, lmax, lmin, lnew, ret,     \* its arguments, locals and result
    pc,                                  \* where the notebook is
    prev,                                \* the previous top-level my_line_search call
    gnp,                                 \* the top-level get_next_p call
    start,                               \* the start point the driver cell runs from
    n_iters, this_x, this_p, x_ts, p_ts, di,          \* the driver cell (di is its i)
    ls_calls, p_updates                  \* calls the driver has made so far

cfgVars == <<feeler_init, tolerance, max_iters>>
lsVars == <<lpc, x, p, la, lgla, lb, i, lmax, lmin, lnew, ret>>
drvVars == <<start, n_iters, this_x, this_p, x_ts, p_ts, di, ls_calls, p_updates>>
vars == <<cfgVars, lsVars, pc, prev, gnp, drvVars>>

Init ==
    /\ feeler_init \in FeelerInits
    /\ tolerance \in Tolerances
    /\ max_iters \in 1..MaxIters
    /\ lpc = "idle"
    /\ x = NoValue /\ p = NoValue
    /\ la = 0 /\ lgla = 0 /\ lb = 0 /\ i = 0 /\ lmax = 0 /\ lmin = 0
    /\ lnew = NoValue /\ ret = NoValue
    /\ pc = "idle"
    /\ prev = NoCall
    /\ gnp = NoValue
    /\ start = NoValue
    /\ n_iters = 0 /\ this_x = NoValue /\ this_p = NoValue
    /\ x_ts = <<>> /\ p_ts = <<>> /\ di = 0
    /\ ls_calls = 0 /\ p_updates = 0

\* ------------------------------------------------------- my_line_search
\* x + l*p
Along(xx, l, pp) == MatAdd(xx, ScalarMul(l, pp))

\* entry: la, lgla, lb and the first i = 0
Enter(xx, pp) ==
    /\ x' = xx /\ p' = pp
    /\ la' = 0
    /\ lgla' = line_grad(xx, pp)
    /\ lb' = FMul(FNeg(line_grad(xx, pp)), feeler_init)
    /\ i' = 0
    /\ lmax' = 0 /\ lmin' = 0
    /\ lnew' = NoValue /\ ret' = NoValue
    /\ lpc' = "expand"

\* the condition of the first while loop
NoSignChange == FGt(FMul(lgla, line_grad(Along(x, lb, p), p)), 0)

\* Part 1, one pass of the loop body
Expand ==
    /\ lpc = "expand"
    /\ NoSignChange
    /\ lb' = FMul(lb, Fx(feeler_step))
    /\ i' = i + 1
    /\ lpc' = IF i + 1 >= max_iters THEN "bracket_timeout" ELSE "expand"
    /\ UNCHANGED <<x, p, la, lgla, lmax, lmin, lnew, ret>>
    /\ UNCHANGED <<cfgVars, pc, prev, gnp, drvVars>>

\* Bracket without the ordering of the two ends
BracketUnordered ==
    /\ lpc = "expand"
    /\ ~NoSignChange
    /\ lmax' = lb
    /\ lmin' = la
    /\ i' = 0
    /\ lpc' = "bisect"
    /\ UNCHANGED <<x, p, la, lgla, lb, lnew, ret>>
    /\ UNCHANGED <<cfgVars, pc, prev, gnp, drvVars>>

\* Part 1 ends: lmax, lmin and the second i = 0
Bracket ==
    /\ lpc = "expand"
    /\ ~NoSignChange
    /\ lmax' = PyMax(la, lb)
    /\ lmin' = PyMin(la, lb)
    /\ i' = 0
    /\ lpc' = "bisect"
    /\ UNCHANGED <<x, p, la, lgla, lb, lnew, ret>>
    /\ UNCHANGED <<cfgVars, pc, prev, gnp, drvVars>>

\* the condition of the second while loop
TooWide == FGt(FSub(lmax, lmin), tolerance)

\* Bisect with the two branches exchanged
BisectSwapped ==
    /\ lpc = "bisect"
    /\ TooWide
    /\ LET mid == FDiv(FAdd(lmax, lmin), Fx(2))
       IN  /\ lnew' = <<mid>>
           /\ IF FGt(line_grad(Along(x, mid, p), p), 0)
              THEN lmin' = mid /\ lmax' = lmax
              ELSE lmax' = mid /\ lmin' = lmin
    /\ i' = i + 1
    /\ lpc' = IF i + 1 >= max_iters THEN "bisect_timeout" ELSE "bisect"
    /\ UNCHANGED <<x, p, la, lgla, lb, ret>>
    /\ UNCHANGED <<cfgVars, pc, prev, gnp, drvVars>>

\* Part 2, one pass of the loop body
Bisect ==
    /\ lpc = "bisect"
    /\ TooWide
    /\ LET mid == FDiv(FAdd(lmax, lmin), Fx(2))
       IN  /\ lnew' = <<mid>>
           /\ IF FGt(line_grad(Along(x, mid, p), p), 0)
              THEN lmax' = mid /\ lmin' = lmin
              ELSE lmin' = mid /\ lmax' = lmax
    /\ i' = i + 1
    /\ lpc' = IF i + 1 >= max_iters THEN "bisect_timeout" ELSE "bisect"
    /\ UNCHANGED <<x, p, la, lgla, lb, ret>>
    /\ UNCHANGED <<cfgVars, pc, prev, gnp, drvVars>>

\* return x+lnew*p
Return ==
    /\ lpc = "bisect"
    /\ ~TooWide
    /\ lnew # NoValue
    /\ ret' = Along(x, lnew[1], p)
    /\ lpc' = "returned"
    /\ UNCHANGED <<x, p, la, lgla, lb, i, lmax, lmin, lnew>>
    /\ UNCHANGED <<cfgVars, pc, prev, gnp, drvVars>>

\* return x+lnew*p when no pass of the second loop has bound lnew
ReturnUnbound ==
    /\ lpc = "bisect"
    /\ ~TooWide
    /\ lnew = NoValue
    /\ lpc' = "unbound_error"
    /\ UNCHANGED <<x, p, la, lgla, lb, i, lmax, lmin, lnew, ret>>
    /\ UNCHANGED <<cfgVars, pc, prev, gnp, drvVars>>

\* ------------------------------------------------- top-level calls (cells)
\* my_line_search(x, p) called from the top level
Call(xx, pp) ==
    /\ pc = "idle"
    /\ Enter(xx, pp)
    /\ pc' = "call"
    /\ UNCHANGED <<cfgVars, prev, gnp, drvVars>>

ThisCall == [x |-> x, p |-> p, outcome |-> lpc, ret |-> ret]

\* after my_line_search(x, p): my_line_search(x, c*p)
CallScaled(c) ==
    /\ pc = "call"
    /\ lpc \in Finished
    /\ prev' = ThisCall
    /\ Enter(x, ScalarMul(Fx(c), p))
    /\ pc' = "call_scaled"
    /\ UNCHANGED <<cfgVars, gnp, drvVars>>

\* after y = my_line_search(x, p): my_line_search(y, p)
CallAgain ==
    /\ pc = "call"
    /\ lpc = "returned"
    /\ prev' = ThisCall
    /\ Enter(ret, p)
    /\ pc' = "call_again"
    /\ UNCHANGED <<cfgVars, gnp, drvVars>>

\* get_next_p(this_x, next_x, this_p) called from the top level
CallGetNextP(tx, nx, tp) ==
    /\ pc = "idle"
    /\ gnp' = [this_x |-> tx, next_x |-> nx, this_p |-> tp, ret |-> get_next_p(tx, nx, tp)]
    /\ pc' = "get_next_p"
    /\ UNCHANGED <<cfgVars, lsVars, prev, drvVars>>

\* ------------------------------------------------------------- the driver
\* DriverStart with i = 0
DriverStartFromZero(xs, n) ==
    /\ pc = "idle"
    /\ start' = xs
    /\ n_iters' = n
    /\ this_x' = xs
    /\ this_p' = grad(xs, delta)
    /\ x_ts' = <<xs>>
    /\ p_ts' = <<grad(xs, delta)>>
    /\ di' = 0
    /\ pc' = "loop"
    /\ UNCHANGED <<ls_calls, p_updates>>
    /\ UNCHANGED <<cfgVars, lsVars, prev, gnp>>

\* DriverStart with x_ts = [] and p_ts = []
DriverStartEmptyLists(xs, n) ==
    /\ pc = "idle"
    /\ start' = xs
    /\ n_iters' = n
    /\ this_x' = xs
    /\ this_p' = grad(xs, delta)
    /\ x_ts' = <<>>
    /\ p_ts' = <<>>
    /\ di' = 1
    /\ pc' = "loop"
    /\ UNCHANGED <<ls_calls, p_updates>>
    /\ UNCHANGED <<cfgVars, lsVars, prev, gnp>>

\* p0 = grad(x0); this_x, this_p = x0, p0; x_ts = [this_x]; p_ts = [this_p]; i = 1
DriverStart(xs, n) ==
    /\ pc = "idle"
    /\ start' = xs
    /\ n_iters' = n
    /\ this_x' = xs
    /\ this_p' = grad(xs, delta)
    /\ x_ts' = <<xs>>
    /\ p_ts' = <<grad(xs, delta)>>
    /\ di' = 1
    /\ pc' = "loop"
    /\ UNCHANGED <<ls_calls, p_updates>>
    /\ UNCHANGED <<cfgVars, lsVars, prev, gnp>>

\* LoopCall with the loop condition i <= n_iters
LoopCallInclusive ==
    /\ pc = "loop"
    /\ di <= n_iters
    /\ Enter(this_x, this_p)
    /\ ls_calls' = ls_calls + 1
    /\ pc' = "get_next_x"
    /\ UNCHANGED <<start, n_iters, this_x, this_p, x_ts, p_ts, di, p_updates>>
    /\ UNCHANGED <<cfgVars, prev, gnp>>

\* while (i < n_iters): next_x = get_next_x(this_x, this_p), which calls
\* my_line_search(this_x, this_p)
LoopCall ==
    /\ pc = "loop"
    /\ di < n_iters
    /\ Enter(this_x, this_p)
    /\ ls_calls' = ls_calls + 1
    /\ pc' = "get_next_x"
    /\ UNCHANGED <<start, n_iters, this_x, this_p, x_ts, p_ts, di, p_updates>>
    /\ UNCHANGED <<cfgVars, prev, gnp>>

\* LoopBody with the current point replaced before the direction update
LoopBodyPointReplacedFirst ==
    /\ pc = "get_next_x"
    /\ lpc = "returned"
    /\ LET next_x == ret
           next_p == get_next_p(ret, ret, this_p)
       IN  /\ this_x' = next_x
           /\ this_p' = next_p
           /\ x_ts' = Append(x_ts, next_x)
           /\ p_ts' = Append(p_ts, next_p)
    /\ di' = di + 1
    /\ p_updates' = p_updates + 1
    /\ lpc' = "idle"
    /\ pc' = "loop"
    /\ UNCHANGED <<start, n_iters, ls_calls>>
    /\ UNCHANGED <<x, p, la, lgla, lb, i, lmax, lmin, lnew, ret>>
    /\ UNCHANGED <<cfgVars, prev, gnp>>

\* the rest of the loop body, once get_next_x has returned
LoopBody ==
    /\ pc = "get_next_x"
    /\ lpc = "returned"
    /\ LET next_x == ret
           next_p == get_next_p(this_x, ret, this_p)
       IN  /\ this_x' = next_x
           /\ this_p' = next_p
           /\ x_ts' = Append(x_ts, next_x)
           /\ p_ts' = Append(p_ts, next_p)
    /\ di' = di + 1
    /\ p_updates' = p_updates + 1
    /\ lpc' = "idle"
    /\ pc' = "loop"
    /\ UNCHANGED <<start, n_iters, ls_calls>>
    /\ UNCHANGED <<x, p, la, lgla, lb, i, lmax, lmin, lnew, ret>>
    /\ UNCHANGED <<cfgVars, prev, gnp>>

\* LoopRaise with the exception caught: the iteration is given up and the loop goes on
LoopRaiseCaught ==
    /\ pc = "get_next_x"
    /\ lpc \in Raised
    /\ di' = di + 1
    /\ lpc' = "idle"
    /\ pc' = "loop"
    /\ UNCHANGED <<start, n_iters, this_x, this_p, x_ts, p_ts, ls_calls, p_updates>>
    /\ UNCHANGED <<x, p, la, lgla, lb, i, lmax, lmin, lnew, ret>>
    /\ UNCHANGED <<cfgVars, prev, gnp>>

\* an exception of my_line_search leaves get_next_x and the loop: nothing catches it
LoopRaise ==
    /\ pc = "get_next_x"
    /\ lpc \in Raised
    /\ pc' = "fault"
    /\ UNCHANGED <<cfgVars, lsVars, prev, gnp, drvVars>>

\* while (i < n_iters) is false: the loop is over
LoopExit ==
    /\ pc = "loop"
    /\ ~(di < n_iters)
    /\ pc' = "done"
    /\ UNCHANGED <<cfgVars, lsVars, prev, gnp, drvVars>>

Next ==
    \/ Expand
    \/ Bracket
    \/ Bisect
    \/ Return
    \/ ReturnUnbound
    \/ \E xx \in Points, pp \in Directions : Call(xx, pp)
    \/ \E c \in Factors : CallScaled(c)
    \/ CallAgain
    \/ \E tx \in OldPoints, nx \in Points, tp \in Directions : CallGetNextP(tx, nx, tp)
    \/ \E xs \in Points, n \in 1..MaxNIters : DriverStart(xs, n)
    \/ LoopCall
    \/ LoopBody
    \/ LoopRaise
    \/ LoopExit

Spec == Init /\ [][Next]_vars


\* ------------------------------------------------------------------ claims
Zero == Col(0, 0, 0)
\* the directional derivative the line search evaluates at step l of the running call
DirDeriv(l) == line_grad(Along(x, l, p), p)

\* C1: whenever my_line_search returns, the point is x + lnew*p for a step
\* lnew inside the final bracket [lmin, lmax], the bracket is no wider than
\* tolerance, and the directional derivatives at its two ends have opposite
\* (or zero) sign: not positive at lmin, not negative at lmax.
C1_LineSearchPostcondition ==
    lpc = "returned" =>
        /\ lnew # NoValue
        /\ ret = Along(x, lnew[1], p)
        /\ lmin <= lnew[1] /\ lnew[1] <= lmax
        /\ lmax - lmin <= tolerance
        /\ DirDeriv(lmin) <= 0
        /\ DirDeriv(lmax) >= 0

\* a top-level call with a nonzero direction that returned after two or more bisections
C1_Witness ==
    /\ pc = "call" /\ lpc = "returned"
    /\ p # Zero
    /\ i >= 2
    /\ lmax - lmin <= tolerance

\* C2 (as claimed): the step is taken along p/|p|, so the returned point is
\* x + lnew*normalize(p), and a call with the direction c*p, c > 0, ends as
\* the call with p did and returns the same point.
C2_DirectionMagnitudeIrrelevant ==
    /\ lpc = "returned" => ret = Along(x, lnew[1], normalize(p))
    /\ (pc = "call_scaled" /\ lpc \in Finished) =>
           (lpc = prev.outcome /\ ret = prev.ret)

\* C3 (as claimed): a call whose direction is the zero vector returns its
\* input point and raises nothing.
C3_ZeroDirectionReturnsInput ==
    (lpc \in Finished /\ p = Zero) => (lpc = "returned" /\ ret = x)

\* lb after k passes of the first loop
RECURSIVE LbAfter(_)
LbAfter(k) ==
    IF k = 0 THEN FMul(FNeg(lgla), feeler_init)
    ELSE FMul(LbAfter(k - 1), Fx(feeler_step))

\* C4 (as claimed): the bracket timeout is raised only when none of the
\* steps lb, lb*2, ..., lb*2^max_iters (0 to max_iters doublings) gives a
\* directional derivative whose product with lgla is <= 0.
C4_BracketTimeoutOnlyWithoutSignChange ==
    lpc = "bracket_timeout" =>
        \A k \in 0..max_iters : FGt(FMul(lgla, DirDeriv(LbAfter(k))), 0)

\* C5 (as claimed): the bisection timeout is raised only when the bracket
\* is still wider than tolerance after max_iters bisections.
C5_BisectTimeoutOnlyWhenTooWide ==
    lpc = "bisect_timeout" => (i = max_iters /\ TooWide)

InDriver == pc \in { "loop", "get_next_x", "done", "fault" }

\* C6: when the driver finishes without a fault, x_ts and p_ts both hold
\* exactly n_iters entries.
C6_TrajectoryLength ==
    pc = "done" => (Len(x_ts) = n_iters /\ Len(p_ts) = n_iters)

\* a driver run of three iterations' worth of entries that finished
C6_Witness ==
    /\ pc = "done"
    /\ n_iters = 3
    /\ p_updates >= 1

\* C7 (as claimed): once the first iteration is complete, entry 0 of the
\* trajectory is the first post-line-search iterate, the pair
\* (my_line_search(x0, p0), get_next_p(x0, that point, p0)), and the start
\* pair (x0, p0) is not an entry of the trajectory.
C7_IndexZeroIsFirstIterate ==
    (pc = "loop" /\ p_updates = 1) =>
        /\ x_ts[1] = ret
        /\ p_ts[1] = get_next_p(start, ret, grad(start, delta))
        /\ \A k \in 1..Len(x_ts) : <<x_ts[k], p_ts[k]>> # <<start, grad(start, delta)>>

\* C7 (amended): entry 0 of the trajectory is the start pair (x0, p0) with
\* p0 = grad(x0); the first post-line-search iterate, the pair
\* (my_line_search(x0, p0), get_next_p(x0, that point, p0)), is entry 1.
C7_IndexZeroIsStartPair ==
    /\ InDriver =>
           /\ Len(x_ts) >= 1 /\ Len(p_ts) >= 1
           /\ x_ts[1] = start
           /\ p_ts[1] = grad(start, delta)
    /\ (pc = "loop" /\ p_updates = 1) =>
           /\ x = start /\ p = grad(start, delta)
           /\ Len(x_ts) = 2 /\ Len(p_ts) = 2
           /\ x_ts[2] = ret
           /\ p_ts[2] = get_next_p(start, ret, grad(start, delta))

\* the first iteration of a driver run is complete and moved the point
C7_Witness ==
    /\ pc = "loop" /\ p_updates = 1
    /\ Len(x_ts) = 2
    /\ x_ts[2] # start

Dot(u, v) == FSum(Tab1(N, LAMBDA r : FMul(u[r][1], v[r][1])))
PolakRibiere(gt, gn, tp) ==
    LET beta == FDiv(Dot(MatSub(gn, gt), gn), Dot(gt, gt))
    IN  Tab2(N, 1, LAMBDA r, c : FAdd(gn[r][1], FMul(beta, tp[r][1])))

\* C9: for a previous point with nonzero gradient, get_next_p returns
\* grad(x_new) + beta*p_old with the Polak-Ribiere beta, an array of the
\* shape of p_old.
C9_PolakRibiereUpdate ==
    (pc = "get_next_p" /\ grad(gnp.this_x, delta) # Zero) =>
        /\ gnp.ret = PolakRibiere(grad(gnp.this_x, delta), grad(gnp.next_x, delta), gnp.this_p)
        /\ Shape(gnp.ret) = Shape(gnp.this_p)
        /\ \A v \in Entries(gnp.ret) : IsFinite(v)

\* a get_next_p call with nonzero gradient whose beta*p_old term is not zero
C9_Witness ==
    /\ pc = "get_next_p"
    /\ grad(gnp.this_x, delta) # Zero
    /\ gnp.this_p # Zero
    /\ gnp.ret # grad(gnp.next_x, delta)

\* C10 (as claimed): with grad(x_old) exactly zero get_next_p raises nothing
\* and returns a direction with a NaN/Inf component; in the driver an
\* iteration whose current point has zero gradient raises nothing either,
\* so that the direction is recorded in p_ts and handed to the next line
\* search.
C10_ZeroGradientIsSilent ==
    /\ (pc = "get_next_p" /\ grad(gnp.this_x, delta) = Zero) =>
           \E v \in Entries(gnp.ret) : ~IsFinite(v)
    /\ (InDriver /\ grad(this_x, delta) = Zero) =>
           (pc # "fault" /\ lpc \notin Raised)

\* C11 (as claimed): a driver run started at the minimizer raises nothing,
\* neither from the line search nor from the direction update, and ends in
\* a converged state: the loop is left early, no line search being made
\* from a point whose gradient is (approximately) zero.
C11_StartAtMinimizerConverges ==
    (InDriver /\ start = answer) =>
        /\ pc # "fault" /\ lpc \notin Raised
        /\ ls_calls = 0

\* the points grad is applied to in the current state
GradArgs ==
    { pt \in { start, this_x, x } : pt # NoValue }
        \cup { x_ts[k] : k \in 1..Len(x_ts) }
        \cup (IF pc = "get_next_p" THEN { gnp.this_x, gnp.next_x } ELSE {})
Deltas == { delta \div 2, delta, 2 * delta }
\* pt with the step d added to coordinate k only
StepInCoordinate(pt, k, d) ==
    Tab2(N, 1, LAMBDA r, c : IF r = k THEN FAdd(pt[r][1], d) ELSE pt[r][1])
Column(m, k) == Tab2(Rows(m), 1, LAMBDA r, c : m[r][k])

\* C12: grad has no cross-coordinate leakage.  For every point pt it is
\* applied to and every step d, grad builds N copies of pt (the columns of
\* xh); copy k is pt with d added to coordinate k and nothing else changed;
\* component k of the result is (f(copy k) - f(pt)) / d; and the result
\* has the shape of pt.
C12_GradNoCrossCoordinateLeakage ==
    \A pt \in GradArgs : \A d \in Deltas :
        LET xh == grad_xh(pt, d)
            g == grad(pt, d)
            fpt == f(pt)[1]
        IN  /\ Shape(xh) = <<N, N>>
            /\ \A k \in 1..N :
                   /\ Column(xh, k) = StepInCoordinate(pt, k, d)
                   /\ g[k][1] = FDiv(FSub(f(StepInCoordinate(pt, k, d))[1], fpt), d)
            /\ Shape(g) = Shape(pt)

\* the driver has applied grad to a point the line search computed, off the
\* input grid, where the three components of the gradient are all nonzero
C12_Witness ==
    /\ pc = "loop" /\ p_updates >= 1
    /\ this_x \notin Points
    /\ this_x \in GradArgs
    /\ \A k \in 1..N : grad(this_x, delta)[k][1] # 0

\* the analytical gradient (4a(x-1)^3, 2(y-2), 4b(z-1)^3) of f
AnalyticGrad(pt) ==
    LET u == pt[1][1] - Fx(1)
        v == pt[2][1] - Fx(2)
        w == pt[3][1] - Fx(1)
    IN  Col(RoundNear(4 * a * u * u * u, Scale * Scale),
            2 * v,
            RoundNear(4 * b * w * w * w, Scale * Scale))
\* the finite-difference error of the claim: about 1e-6 where delta is 1e-7,
\* that is, up to 20 steps (half the largest second derivative of f at x0,
\* 12*b = 36, times the step, and rounding)
GradErrorBound == 20 * delta

Negligible(y, z) ==
    \A k \in 1..N : Abs(y[k][1] - z[k][1]) <= Abs(FMul(tolerance, p[k][1])) + 1

\* C14 (as claimed): after y = my_line_search(x, p) has been returned for a
\* nonzero p, the second call my_line_search(y, p) returns a point as well,
\* and that point differs from y only negligibly.
C14_LineSearchIdempotent ==
    (pc = "call_again" /\ lpc \in Finished /\ p # Zero) =>
        /\ lpc = "returned"
        /\ Negligible(prev.ret, ret)

Timeouts == { "bracket_timeout", "bisect_timeout" }

\* C15: fault propagation without retry.  When the line search called by
\* the driver has raised a timeout, the next step of the notebook is the
\* fault leaving the driver cell: the parameters of the line search, the
\* trajectory, the current pair, the loop counter and the number of calls
\* are all unchanged (nothing is caught, retried or relaxed); once the
\* driver has faulted nothing runs any more; and the trajectory then holds
\* the start pair and one entry per completed iteration, none for the
\* failed one.
C15_FaultPropagatesWithoutRetry ==
    [][ /\ (pc = "get_next_x" /\ lpc \in Timeouts) =>
               /\ pc' = "fault"
               /\ UNCHANGED <<cfgVars, lsVars, drvVars>>
               /\ Len(x_ts') = ls_calls' /\ Len(p_ts') = ls_calls'
               /\ p_updates' = ls_calls' - 1
        /\ pc = "fault" => UNCHANGED vars ]_vars

\* the driver faulted on a timeout of its second line search, after one
\* completed iteration
C15_Witness ==
    /\ pc = "fault" /\ lpc \in Timeouts
    /\ ls_calls = 2 /\ p_updates = 1
    /\ Len(x_ts) = 2

IsPrefix(s, t) == Len(s) <= Len(t) /\ SubSeq(t, 1, Len(s)) = s

\* C17: driver step ordering.  An iteration of the driver ends only after
\* the line search called with the current pair (x, p) has returned x_next;
\* it appends the one entry (x_next, get_next_p(x, x_next, p)), computed
\* from the old point, the new point and the old direction, and makes that
\* entry the current pair of the next iteration.  No step of the notebook
\* changes or removes an entry recorded earlier, and each step adds nothing
\* or one entry to both lists.
C17_DriverStepOrdering ==
    [][ /\ (InDriver /\ x_ts' # x_ts) =>
               /\ pc = "get_next_x" /\ lpc = "returned"
               /\ x = this_x /\ p = this_p
               /\ ret = Along(this_x, lnew[1], this_p)
               /\ x_ts' = Append(x_ts, ret)
               /\ p_ts' = Append(p_ts, get_next_p(this_x, ret, this_p))
               /\ this_x' = x_ts'[Len(x_ts')]
               /\ this_p' = p_ts'[Len(p_ts')]
               /\ pc' = "loop"
        /\ InDriver =>
               /\ IsPrefix(x_ts, x_ts') /\ IsPrefix(p_ts, p_ts')
               /\ Len(x_ts') = Len(p_ts')
               /\ p_ts' # p_ts => x_ts' # x_ts
               /\ <<this_x', this_p'>> # <<this_x, this_p>> => x_ts' # x_ts
               /\ this_x' = x_ts'[Len(x_ts')]
               /\ this_p' = p_ts'[Len(p_ts')] ]_vars

\* the driver has completed two iterations; the second moved the point and
\* its direction is not the plain gradient at the new point
C17_Witness ==
    /\ pc = "loop" /\ p_updates = 2
    /\ Len(x_ts) = 3 /\ Len(p_ts) = 3
    /\ x_ts[3] # x_ts[2]
    /\ p_ts[3] # grad(x_ts[3], delta)
    /\ p_ts[3] = get_next_p(x_ts[2], x_ts[3], p_ts[2])

\* the call has left Part 1 with a bracket
Bracketed == lpc \in { "bisect", "bisect_timeout", "returned", "unbound_error" }

\* the bracket of a call whose first directional derivative is not zero
BracketState ==
    (lpc # "idle" /\ lgla # 0) =>
        /\ Sgn(lb) = -Sgn(lgla)
        /\ Bracketed =>
               /\ lmin <= lmax
               /\ DirDeriv(lmin) <= 0
               /\ DirDeriv(lmax) >= 0

\* the steps of a call whose first directional derivative is not zero
BracketStep ==
    lgla' # 0 =>
        /\ (lpc # "expand" /\ lpc' = "expand") =>
               /\ lgla' = line_grad(x', p')
               /\ lb' = FMul(FNeg(lgla'), feeler_init)
        /\ (lpc = "expand" /\ lpc' \in { "expand", "bracket_timeout" }) =>
               /\ lb' = 2 * lb
               /\ Sgn(lb') = Sgn(lb)
        /\ (lpc = "expand" /\ lpc' = "bisect") =>
               /\ lb' = lb
               /\ { lmin', lmax' } = { 0, lb }
        /\ (lpc = "bisect" /\ lpc' \in { "bisect", "bisect_timeout" }) =>
               LET mid == lnew'[1]
               IN  /\ Abs(2 * mid - (lmax + lmin)) <= 1
                   /\ lmin < mid /\ mid < lmax
                   /\ \/ lmax' = mid /\ lmin' = lmin
                      \/ lmin' = mid /\ lmax' = lmax
                   /\ Abs(2 * (lmax' - lmin') - (lmax - lmin)) <= 1

\* C18: bracket invariant of the line search, for a nonzero initial
\* directional derivative g_a (lgla).  lb starts at -g_a*feeler_init and
\* every doubling keeps its sign, opposite to that of g_a.  On entry to
\* the bisection the bracket is {0, lb} in order, and from then on
\* lmin <= lmax, the directional derivative is <= 0 at lmin and >= 0 at
\* lmax.  Each bisection step replaces exactly one end by the midpoint,
\* which lies strictly between the ends, and halves the width lmax - lmin
\* (to the rounding of the midpoint to a representable number).
C18_BracketInvariant == []BracketState /\ [][BracketStep]_vars

\* a call with a nonzero first derivative is in the bisection after its
\* steps have replaced both ends of the bracket found by the expansion
C18_Witness ==
    /\ lpc = "bisect" /\ i >= 2
    /\ lgla # 0
    /\ lmin # PyMin(la, lb) /\ lmax # PyMax(la, lb)
    /\ lmin < lmax

\* C19 (as claimed): every call of my_line_search makes at most max_iters
\* doublings and at most max_iters bisections and ends in one of three
\* outcomes, a returned point, the bracket timeout or the bisection
\* timeout; whenever the return statement is reached (the bracket is no
\* wider than tolerance), lnew has been bound by at least one bisection.
C19_ThreeOutcomes ==
    /\ lpc # "idle" => i <= max_iters
    /\ lpc \in Finished => lpc \in { "returned", "bracket_timeout", "bisect_timeout" }
    /\ (lpc = "bisect" /\ ~TooWide) => (lnew # NoValue /\ i >= 1)
    /\ lpc = "returned" => (lnew # NoValue /\ i >= 1)

=============================================================================
